---- MODULE Spec2Model ----
(***************************************************************************)
(* Flood-spread prediction engine of the IKHLAA backend                    *)
(* (backend/services/flood_predictor.py, backend/main.py).                 *)
(*                                                                         *)
(* Numbers.  The source computes with floats; the model computes the same  *)
(* quantities exactly, as integers over fixed denominators:                *)
(*   spread_probability        in units of 1/10000                         *)
(*   direction_factor          in units of 1/100                           *)
(*   a draw of the generator   q in 0..Quant-1, standing for q/Quant       *)
(*   a latitude or longitude   in units of 1/Degree of a degree            *)
(*   a cosine                  in units of 1/CosScale                      *)
(*   a spread of a boundary    in units of 111/(Degree*CosScale) km        *)
(*   an axis or radius         in units of 1/AxisPerKm km                  *)
(* A quotient that is not a whole number of its unit is rounded to the     *)
(* nearest unit, as a float operation rounds to a representable value.     *)
(* np.random is one process-wide generator: a deterministic stream fixed   *)
(* by its seed, of which every draw consumes the next element.             *)
(***************************************************************************)
EXTENDS Integers, Sequences, FiniteSets, TLC

VARIABLES
    seed,                \* the stream of the process-wide np.random generator
    rng,                 \* number of draws consumed from that stream so far
    pc,                  \* position of the running call
    attempts,            \* requests issued by the current get_weather call
    response,            \* answer to the request of the get_weather call that has just
                         \* returned (NoResponse once its caller has moved on)
    fetched,             \* value returned by the last get_weather call
    requests,            \* requests sent to the weather service so far
    weather,             \* get_flood_prediction: its local `weather`
    hi,                  \* get_flood_prediction: horizon being predicted (0: none yet)
    args,                \* run_simulation: its arguments
    spread_probability,  \* run_simulation: clamped probability, in 1/10000
    grid,                \* run_simulation: the current grid
    minute,              \* run_simulation: iterations of the loop completed
    calls,               \* arguments of every run_simulation call made, in order
    zones,               \* list returned by every completed run_simulation call
    flood_lat,           \* the predictor's flood origin: self.flood_lat
    flood_lng,           \* the predictor's flood origin: self.flood_lng
    boundaries,          \* value of every get_prediction_boundary call made, in order
    result,              \* get_flood_prediction: the value it returns
    factors              \* direction factors computed for the 8 neighbours of a cell

vars == <<seed, rng, pc, attempts, response, fetched, requests, weather, hi,
          args, spread_probability, grid, minute, calls, zones,
          flood_lat, flood_lng, boundaries, result, factors>>

(***************************************************************************)
(* Bounds of the model.                                                    *)
(***************************************************************************)
grid_size == 5       \* 50 in the source; the model explores a smaller square
StreamPeriod == 3    \* length of the generator's stream before it repeats
Quant == 2           \* number of equally spaced values a uniform draw takes
MaxDuration == 2     \* largest duration_minutes of a direct run_simulation call
MaxRuns == 2         \* direct run_simulation calls made in a row

(***************************************************************************)
(* Values.  A JSON / Python value that the code expects to be a number is  *)
(* either a number or None (JSON null).                                    *)
(***************************************************************************)
Num(n) == [t |-> "num", v |-> n]
None == [t |-> "none"]
Unset == [t |-> "unset"]
IsNum(x) == x.t = "num"

Sample(ws, wd, temp, hum) ==
    [wind_speed |-> ws, wind_direction |-> wd, temperature |-> temp, humidity |-> hum]

NoSample == Sample(Unset, Unset, Unset, Unset)

\* the fallback sample of get_weather
DefaultSample == Sample(Num(3), Num(0), Num(35), Num(30))

Abs(x) == IF x < 0 THEN 0 - x ELSE x

(***************************************************************************)
(* np.random: draw number p of the stream.                                 *)
(***************************************************************************)
Seeds == [1..StreamPeriod -> 0..(Quant - 1)]

Draw(p) == seed[(p % StreamPeriod) + 1]

(***************************************************************************)
(* run_simulation: grid and physics parameters.                            *)
(***************************************************************************)
Cells == (0..(grid_size - 1)) \X (0..(grid_size - 1))

center == grid_size \div 2

InitialGridNoOrigin == [c \in Cells |-> 0]

InitialGrid == [c \in Cells |-> IF c = <<center, center>> THEN 1 ELSE 0]

\* base_spread_rate * wind_factor * rainfall_factor * drainage_factor, in 1/10^7:
\* 15/100 * (20 + wind_speed)/20 * (50 + humidity)/50 * (100 - temperature)/100
RawProbability(ws, temp, hum) == 15 * (20 + ws) * (50 + hum) * (100 - temp)

\* the same in 1/10000 (exact for the inputs the model draws, see Exact)
Probability(ws, temp, hum) == RawProbability(ws, temp, hum) \div 1000

Exact(ws, temp, hum) == RawProbability(ws, temp, hum) % 1000 = 0

Max(a, b) == IF a > b THEN a ELSE b
Min(a, b) == IF a < b THEN a ELSE b

ClampUpperOnly(p) == Min(p, 9000)

\* min(max(p, 0.1), 0.9)
Clamp(p) == Min(Max(p, 1000), 9000)

(***************************************************************************)
(* run_simulation: one neighbour test.                                     *)
(***************************************************************************)
\* np.arctan2(y, x) * 180 / np.pi for the offsets of the 8 neighbours
\* (the source calls it with y = dj, x = di)
Arctan2Deg(y, x) ==
    CASE x = 1 /\ y = 0 -> 0
      [] x = 1 /\ y = 1 -> 45
      [] x = 0 /\ y = 1 -> 90
      [] x = -1 /\ y = 1 -> 135
      [] x = -1 /\ y = 0 -> 180
      [] x = -1 /\ y = -1 -> -135
      [] x = 0 /\ y = -1 -> -90
      [] x = 1 /\ y = -1 -> -45

downhill_angle == 200

AngularDistanceNoWrap(a, b) == Abs(a - b)

\* abs((a - b + 180) % 360 - 180)
AngularDistance(a, b) == Abs(((a - b + 180) % 360) - 180)

\* direction_factor before the wind bias, in 1/10
TerrainFactor(angle) ==
    LET elevation_diff == AngularDistance(angle, downhill_angle)
    IN  IF elevation_diff < 60 THEN 30
        ELSE IF elevation_diff < 120 THEN 10
        ELSE 3

WindBiasInclusive(angle, wind_direction) ==
    LET angle_diff == AngularDistance(angle, wind_direction)
    IN  IF angle_diff <= 45 THEN 12 ELSE 9

\* wind_bias, in 1/10
WindBias(angle, wind_direction) ==
    LET angle_diff == AngularDistance(angle, wind_direction)
    IN  IF angle_diff < 45 THEN 12 ELSE 9

\* direction_factor after `direction_factor *= wind_bias`, in 1/100
DirectionFactor(di, dj, wind_direction) ==
    LET angle == Arctan2Deg(dj, di)
    IN  TerrainFactor(angle) * WindBias(angle, wind_direction)

\* everything the loop body computes about the direction of the neighbour
\* at offset (di, dj), before any random draw
NeighbourFactors(di, dj, wind_direction) ==
    LET angle == Arctan2Deg(dj, di)
    IN  [elevation_diff |-> AngularDistance(angle, downhill_angle),
         terrain |-> TerrainFactor(angle),
         angle_diff |-> AngularDistance(angle, wind_direction),
         wind_bias |-> WindBias(angle, wind_direction),
         direction_factor |-> DirectionFactor(di, dj, wind_direction)]

\* no factors computed yet
NoFactors == <<>>

\* np.random.random() < spread_probability * direction_factor * noise, where
\* noise = np.random.uniform(0.7, 1.3) = 0.7 + 0.6 * qNoise/Quant and
\* np.random.random() = qU/Quant; both sides multiplied by 10^7 * Quant
Spreads(prob, factor, qNoise, qU) ==
    qU * 10000000 < prob * factor * (7 * Quant + 6 * qNoise)

InBoundsUpperOnly(ni, nj) == ni < grid_size /\ nj < grid_size

\* 0 <= ni < grid_size and 0 <= nj < grid_size
InBounds(ni, nj) == 0 <= ni /\ ni < grid_size /\ 0 <= nj /\ nj < grid_size

\* the cell that new_grid[ni, nj] denotes (numpy counts a negative index
\* from the end)
Indexed(ni, nj) ==
    LET wrap(k) == IF k < 0 THEN k + grid_size ELSE k
    IN  <<wrap(ni), wrap(nj)>>

IsSourceInPlace(g, new_grid, i, j) == new_grid[<<i, j>>] = 1

\* `if grid[i, j] == 1`: the test reads the grid of the start of the step
IsSource(g, new_grid, i, j) == g[<<i, j>>] = 1

NewGridZeros(g) == [c \in Cells |-> 0]

\* new_grid = grid.copy()
NewGrid(g) == g

\* (di, dj) in the order of `for di in [-1, 0, 1]: for dj in [-1, 0, 1]`
Offsets ==
    <<<<-1, -1>>, <<-1, 0>>, <<-1, 1>>, <<0, -1>>, <<0, 0>>, <<0, 1>>,
      <<1, -1>>, <<1, 0>>, <<1, 1>>>>

\* offset number o of cell (i, j) passes `continue` and the bounds check
Tested(i, j, o) ==
    /\ Offsets[o] # <<0, 0>>
    /\ InBounds(i + Offsets[o][1], j + Offsets[o][2])

\* the offsets of cell (i, j) that reach the two draws
TestedOffsets(i, j) == {o \in 1..9 : Tested(i, j, o)}

\* the cells that flooded cell (i, j) floods when the generator is at
\* position p: every tested offset consumes two draws, noise first
FloodedBy(i, j, p, prob, wind_direction) ==
    LET tested == TestedOffsets(i, j)
        before(o) == Cardinality({o2 \in tested : o2 < o})
        hit(o) == Spreads(prob,
                          DirectionFactor(Offsets[o][1], Offsets[o][2], wind_direction),
                          Draw(p + 2 * before(o)), Draw(p + 2 * before(o) + 1))
    IN  {Indexed(i + Offsets[o][1], j + Offsets[o][2]) : o \in {o2 \in tested : hit(o2)}}

(***************************************************************************)
(* run_simulation: one iteration of the minute loop.  Scan visits the      *)
(* cells in row-major order, c = i * grid_size + j; a flooded cell tests   *)
(* its neighbours and writes the flooded ones into new_grid.  The result   *)
(* is the grid to commit and the generator's new position.                 *)
(***************************************************************************)
RECURSIVE Scan(_, _, _, _, _, _)
Scan(c, g, new_grid, p, prob, wind_direction) ==
    IF c >= grid_size * grid_size
    THEN [grid |-> new_grid, rng |-> p]
    ELSE LET i == c \div grid_size
             j == c % grid_size
         IN  IF ~IsSource(g, new_grid, i, j)
             THEN Scan(c + 1, g, new_grid, p, prob, wind_direction)
             ELSE LET flooded == FloodedBy(i, j, p, prob, wind_direction)
                  IN  Scan(c + 1, g,
                           [x \in Cells |-> IF x \in flooded THEN 1 ELSE new_grid[x]],
                           p + 2 * Cardinality(TestedOffsets(i, j)),
                           prob, wind_direction)

Step(g, p, prob, wind_direction) == Scan(0, g, NewGrid(g), p, prob, wind_direction)

(***************************************************************************)
(* run_simulation: conversion of the final grid to the returned list.      *)
(***************************************************************************)
cell_size_m == 100
Degree == 222000
CosScale == 10000

\* a / b for b > 0, rounded to the nearest integer
Div(a, b) == (a + b \div 2) \div b

\* np.cos(np.radians(lat)): the cosine at the whole degrees around the
\* latitudes of the model, linear in between
CosAtDegree(d) ==
    CASE d = 0 -> 10000 [] d = 1 -> 9998
      [] d = 24 -> 9135 [] d = 25 -> 9063
      [] d = 59 -> 5150 [] d = 60 -> 5000 [] d = 61 -> 4848

Cos(lat) ==
    LET d == Abs(lat) \div Degree
        frac == Abs(lat) % Degree
    IN  CosAtDegree(d) + Div((CosAtDegree(d + 1) - CosAtDegree(d)) * frac, Degree)

meters_per_degree_lat == 111000
meters_per_degree_lng == Div(111000 * Cos(flood_lat), CosScale)

ZoneFromCorner(i, j) ==
    [lat |-> flood_lat + Div(i * cell_size_m * Degree, meters_per_degree_lat),
     lng |-> flood_lng + Div(j * cell_size_m * Degree, meters_per_degree_lng)]

Zone(i, j) ==
    LET lat_offset == (i - center) * cell_size_m
        lng_offset == (j - center) * cell_size_m
    IN  [lat |-> flood_lat + Div(lat_offset * Degree, meters_per_degree_lat),
         lng |-> flood_lng + Div(lng_offset * Degree, meters_per_degree_lng)]

RECURSIVE Convert(_, _)
Convert(c, g) ==
    IF c >= grid_size * grid_size THEN <<>>
    ELSE LET i == c \div grid_size
             j == c % grid_size
         IN  IF g[<<i, j>>] = 1
             THEN <<Zone(i, j)>> \o Convert(c + 1, g)
             ELSE Convert(c + 1, g)

PredictedZones(g) == Convert(0, g)

(***************************************************************************)
(* run_simulation as a whole: the list it returns for numeric arguments a  *)
(* when the process-wide generator is at position p on entry.              *)
(***************************************************************************)
RECURSIVE Iterate(_, _, _, _, _)
Iterate(n, g, p, prob, wind_direction) ==
    IF n = 0 THEN g
    ELSE LET r == Step(g, p, prob, wind_direction)
         IN  Iterate(n - 1, r.grid, r.rng, prob, wind_direction)

RunSimulation(a, p) ==
    PredictedZones(
        Iterate(a.duration_minutes, InitialGrid, p,
                Clamp(Probability(a.wind_speed.v, a.temperature.v, a.humidity.v)),
                a.wind_direction.v))

(***************************************************************************)
(* get_prediction_boundary.                                                *)
(***************************************************************************)
AxisPerKm == 400000000

SetMax(S) == CHOOSE x \in S : \A y \in S : y <= x
SetMin(S) == CHOOSE x \in S : \A y \in S : x <= y

\* the value returned for the empty list
FallbackBoundary ==
    [center |-> <<flood_lat, flood_lng>>,
     radius |-> 3 * (AxisPerKm \div 10),
     type |-> "ellipse",
     major_axis |-> 4 * (AxisPerKm \div 10),
     minor_axis |-> 2 * (AxisPerKm \div 10),
     rotation |-> 200]

\* the two spreads are in units of 111/(Degree*CosScale) km, an axis in
\* units of 1/AxisPerKm km: 1.5 of the first unit are 30 of the second and
\* 0.7 of it are 14, both even, so that their mean is a whole number
EllipseRound(zs) ==
    LET lats == {zs[n].lat : n \in 1..Len(zs)}
        lngs == {zs[n].lng : n \in 1..Len(zs)}
        lat_spread_km == (SetMax(lats) - SetMin(lats)) * CosScale
        lng_spread_km == (SetMax(lngs) - SetMin(lngs)) * CosScale
        max_spread == Max(lat_spread_km, lng_spread_km)
    IN  [center |-> <<Div(SetMax(lats) + SetMin(lats), 2), Div(SetMax(lngs) + SetMin(lngs), 2)>>,
         radius |-> 30 * max_spread,
         type |-> "ellipse",
         major_axis |-> 30 * max_spread,
         minor_axis |-> 30 * max_spread,
         rotation |-> 200]

Ellipse(zs) ==
    LET lats == {zs[n].lat : n \in 1..Len(zs)}
        lngs == {zs[n].lng : n \in 1..Len(zs)}
        center_lat == Div(SetMax(lats) + SetMin(lats), 2)
        center_lng == Div(SetMax(lngs) + SetMin(lngs), 2)
        lat_spread_km == (SetMax(lats) - SetMin(lats)) * CosScale
        lng_spread_km == (SetMax(lngs) - SetMin(lngs)) * Cos(center_lat)
        max_spread == Max(lat_spread_km, lng_spread_km)
        min_spread == Min(lat_spread_km, lng_spread_km)
        major_axis == 30 * max_spread
        minor_axis == 14 * min_spread
        radius_km == (major_axis + minor_axis) \div 2
    IN  [center |-> <<center_lat, center_lng>>,
         radius |-> radius_km,
         type |-> "ellipse",
         major_axis |-> major_axis,
         minor_axis |-> minor_axis,
         rotation |-> 200]

GetPredictionBoundarySingleFallback(zs) ==
    IF Len(zs) <= 1 THEN FallbackBoundary ELSE Ellipse(zs)

GetPredictionBoundaryNoFallback(zs) ==
    IF zs = <<>>
    THEN [center |-> <<flood_lat, flood_lng>>, radius |-> 0, type |-> "ellipse",
          major_axis |-> 0, minor_axis |-> 0, rotation |-> 200]
    ELSE Ellipse(zs)

GetPredictionBoundary(zs) == IF zs = <<>> THEN FallbackBoundary ELSE Ellipse(zs)

(***************************************************************************)
(* get_weather.  A response of the weather service is a timeout, an error  *)
(* status, or a success whose body is not JSON or is a JSON value; a JSON  *)
(* object is a function from its keys, any other JSON value is opaque.     *)
(***************************************************************************)
Obj(f) == [t |-> "obj", v |-> f]
EmptyObj == Obj(<<>>)
NotAnObj == [t |-> "str"]
NotJson == [t |-> "not_json"]

Timeout == [status |-> "timeout"]
HttpError == [status |-> "http_error"]
Ok(body) == [status |-> "ok", body |-> body]
NoResponse == [status |-> "none"]

\* dict.get(key, default)
Get(d, key, default) == IF key \in DOMAIN d.v THEN d.v[key] ELSE default

\* the sample of the `except` branch
FallbackSample == Sample(Num(3), Num(0), Num(35), Num(30))

\* an exception leaving get_weather
Raised == [t |-> "raised"]

GetWeatherNarrowCatch(resp) ==
    IF resp.status # "ok" THEN FallbackSample
    ELSE IF resp.body.t # "obj" THEN Raised
    ELSE LET wind == Get(resp.body, "wind", EmptyObj)
             main == Get(resp.body, "main", EmptyObj)
         IN  IF wind.t # "obj" \/ main.t # "obj" THEN Raised
             ELSE Sample(Get(wind, "speed", Num(3)), Get(wind, "deg", Num(0)),
                         Get(main, "temp", Num(35)), Get(main, "humidity", Num(30)))

GetWeatherWholeDefault(resp) ==
    IF resp.status # "ok" THEN FallbackSample
    ELSE IF resp.body.t # "obj" THEN FallbackSample
    ELSE LET wind == Get(resp.body, "wind", EmptyObj)
             main == Get(resp.body, "main", EmptyObj)
         IN  IF wind.t # "obj" \/ main.t # "obj" THEN FallbackSample
             ELSE IF DOMAIN wind.v # {"speed", "deg"} \/ DOMAIN main.v # {"temp", "humidity"}
             THEN FallbackSample
             ELSE Sample(wind.v.speed, wind.v.deg, main.v.temp, main.v.humidity)

\* the value get_weather returns for a response: requests.get raises on a
\* timeout, raise_for_status on an error status, response.json() on a body
\* that is not JSON, and .get on a value that is not a dict; `except
\* Exception` turns each of them into the fallback sample
GetWeather(resp) ==
    IF resp.status # "ok" THEN FallbackSample
    ELSE IF resp.body.t # "obj" THEN FallbackSample
    ELSE LET wind == Get(resp.body, "wind", EmptyObj)
             main == Get(resp.body, "main", EmptyObj)
         IN  IF wind.t # "obj" \/ main.t # "obj" THEN FallbackSample
             ELSE Sample(Get(wind, "speed", Num(3)), Get(wind, "deg", Num(0)),
                         Get(main, "temp", Num(35)), Get(main, "humidity", Num(30)))

\* the responses the model draws from
FullBody == Obj([wind |-> Obj([speed |-> Num(40), deg |-> Num(200)]),
                 main |-> Obj([temp |-> Num(20), humidity |-> Num(80)])])
NoSpeedBody == Obj([wind |-> Obj([deg |-> Num(200)]),
                    main |-> Obj([temp |-> Num(20), humidity |-> Num(80)])])
WindNotObjBody == Obj([wind |-> NotAnObj,
                       main |-> Obj([temp |-> Num(20), humidity |-> Num(80)])])
NullSpeedBody == Obj([wind |-> Obj([speed |-> None, deg |-> Num(200)]),
                      main |-> Obj([temp |-> Num(20), humidity |-> Num(80)])])

Responses ==
    {Timeout, HttpError, Ok(NotJson), Ok(NotAnObj), Ok(WindNotObjBody),
     Ok(FullBody), Ok(NoSpeedBody), Ok(EmptyObj), Ok(NullSpeedBody)}

(***************************************************************************)
(* The horizons of get_flood_prediction, 10, 30 and 60 minutes in the      *)
(* source, scaled to the model's grid.                                     *)
(***************************************************************************)
Horizons == <<1, 2, 3>>

\* the flood origin of get_flood_prediction, (24.7120, 46.6810)
flood_location == <<5486064, 10363182>>

Args(s, d) ==
    [wind_speed |-> s.wind_speed, wind_direction |-> s.wind_direction,
     temperature |-> s.temperature, humidity |-> s.humidity, duration_minutes |-> d]

NoArgs == Args(NoSample, 0)

(***************************************************************************)
(* get_weather: the request and its single answer.                         *)
(***************************************************************************)
GetWeatherRequest ==
    /\ pc = "get_weather"
    /\ attempts' = attempts + 1
    /\ requests' = requests + 1
    /\ pc' = "waiting"
    /\ UNCHANGED <<seed, rng, response, fetched, weather, hi, args,
                   spread_probability, grid, minute, calls, zones>>
    /\ UNCHANGED <<flood_lat, flood_lng, boundaries, result, factors>>

GetWeatherRetry ==
    /\ pc = "waiting"
    /\ \E r \in Responses :
          LET sample == GetWeather(r)
          IN  /\ response' = r
              /\ IF r.status # "ok" /\ attempts < 2
                 THEN /\ pc' = "get_weather"
                      /\ UNCHANGED <<fetched, weather, hi, args, calls>>
                 ELSE /\ fetched' = sample
                      /\ IF hi = 0
                         THEN /\ weather' = sample
                              /\ hi' = 1
                              /\ pc' = "predict_spread"
                              /\ UNCHANGED <<args, calls>>
                         ELSE /\ args' = Args(sample, Horizons[hi])
                              /\ calls' = Append(calls, args')
                              /\ pc' = "run_simulation"
                              /\ UNCHANGED <<weather, hi>>
    /\ UNCHANGED <<seed, rng, attempts, requests, spread_probability, grid, minute, zones>>
    /\ UNCHANGED <<flood_lat, flood_lng, boundaries, result, factors>>

\* the answer arrives (or the 5 s timeout fires) and get_weather returns to
\* its caller: get_flood_prediction (hi = 0), which keeps the sample as
\* `weather` and goes on to predict_spread(10), or predict_spread, which
\* passes the four values to run_simulation
GetWeatherReturn ==
    /\ pc = "waiting"
    /\ \E r \in Responses :
          LET sample == GetWeather(r)
          IN  /\ response' = r
              /\ fetched' = sample
              /\ IF sample = Raised
                 THEN /\ pc' = "error"
                      /\ UNCHANGED <<weather, hi, args, calls>>
                 ELSE IF hi = 0
                 THEN /\ weather' = sample
                      /\ hi' = 1
                      /\ pc' = "predict_spread"
                      /\ UNCHANGED <<args, calls>>
                 ELSE /\ args' = Args(sample, Horizons[hi])
                      /\ calls' = Append(calls, args')
                      /\ pc' = "run_simulation"
                      /\ UNCHANGED <<weather, hi>>
    /\ UNCHANGED <<seed, rng, attempts, requests, spread_probability, grid, minute, zones>>
    /\ UNCHANGED <<flood_lat, flood_lng, boundaries, result, factors>>

(***************************************************************************)
(* predict_spread: its first statement, the call of get_weather.           *)
(***************************************************************************)
PredictSpreadReuse ==
    /\ pc = "predict_spread"
    /\ args' = Args(weather, Horizons[hi])
    /\ calls' = Append(calls, args')
    /\ pc' = "run_simulation"
    /\ response' = NoResponse
    /\ UNCHANGED <<seed, rng, attempts, fetched, requests, weather, hi,
                   spread_probability, grid, minute, zones>>
    /\ UNCHANGED <<flood_lat, flood_lng, boundaries, result, factors>>

PredictSpread ==
    /\ pc = "predict_spread"
    /\ pc' = "get_weather"
    /\ attempts' = 0
    /\ response' = NoResponse
    /\ UNCHANGED <<seed, rng, fetched, requests, weather, hi, args, spread_probability,
                   grid, minute, calls, zones>>
    /\ UNCHANGED <<flood_lat, flood_lng, boundaries, result, factors>>

(***************************************************************************)
(* run_simulation.                                                         *)
(***************************************************************************)
\* grid set-up and physics parameters; the arithmetic on a None raises
RunSimulationStart ==
    /\ pc = "run_simulation"
    /\ response' = NoResponse
    /\ IF IsNum(args.wind_speed) /\ IsNum(args.humidity) /\ IsNum(args.temperature)
       THEN /\ grid' = InitialGrid
            /\ spread_probability' =
                  Clamp(Probability(args.wind_speed.v, args.temperature.v, args.humidity.v))
            /\ minute' = 0
            /\ pc' = "loop"
       ELSE /\ pc' = "error"
            /\ UNCHANGED <<grid, spread_probability, minute>>
    /\ UNCHANGED <<seed, rng, attempts, fetched, requests, weather, hi, args, calls, zones>>
    /\ UNCHANGED <<flood_lat, flood_lng, boundaries, result, factors>>

\* one iteration of `for _ in range(duration_minutes)`
SimulationStep ==
    /\ pc = "loop"
    /\ minute < args.duration_minutes
    /\ IF IsNum(args.wind_direction)
       THEN LET r == Step(grid, rng, spread_probability, args.wind_direction.v)
            IN  /\ grid' = r.grid
                /\ rng' = r.rng
                /\ minute' = minute + 1
                /\ pc' = "loop"
       ELSE /\ pc' = "error"
            /\ UNCHANGED <<grid, rng, minute>>
    /\ UNCHANGED <<seed, attempts, response, fetched, requests, weather, hi, args,
                   spread_probability, calls, zones>>
    /\ UNCHANGED <<flood_lat, flood_lng, boundaries, result, factors>>

\* the loop is over: the grid is converted and returned to predict_spread,
\* which returns it to get_flood_prediction; the next horizon follows
PredictSpreadReturn ==
    /\ pc = "loop"
    /\ minute = args.duration_minutes
    /\ zones' = Append(zones, PredictedZones(grid))
    /\ IF hi < Len(Horizons)
       THEN /\ hi' = hi + 1
            /\ pc' = "predict_spread"
       ELSE /\ hi' = hi
            /\ pc' = "respond"
    /\ UNCHANGED <<seed, rng, attempts, response, fetched, requests, weather, args,
                   spread_probability, grid, minute, calls>>
    /\ boundaries' = Append(boundaries, GetPredictionBoundary(PredictedZones(grid)))
    /\ UNCHANGED <<flood_lat, flood_lng, result, factors>>

\* round(x, 1) and int(x) of a number of a sample: the samples of the model
\* are whole numbers, of which both conversions keep the value; the result
\* is the bare number (a None raises, see Respond)
Round1(x) == x.v
ToInt(x) == x.v

\* the "weather" entry of the result, made from a sample
WeatherSummary(s) ==
    [wind_speed |-> Round1(s.wind_speed), wind_direction |-> ToInt(s.wind_direction),
     temperature |-> Round1(s.temperature), humidity |-> ToInt(s.humidity)]

\* the value get_flood_prediction returns; its three predictions, "10min",
\* "30min" and "60min", are indexed by their position in Horizons
ResultFirstBoundary ==
    [flood_location |-> [lat |-> flood_location[1], lng |-> flood_location[2]],
     weather |-> WeatherSummary(weather),
     predictions |->
        [h \in 1..Len(Horizons) |->
            [zones |-> zones[h], boundary |-> boundaries[1], zone_count |-> Len(zones[h])]]]

Result ==
    [flood_location |-> [lat |-> flood_location[1], lng |-> flood_location[2]],
     weather |-> WeatherSummary(weather),
     predictions |->
        [h \in 1..Len(Horizons) |->
            [zones |-> zones[h], boundary |-> boundaries[h], zone_count |-> Len(zones[h])]]]

NoResult == [t |-> "none"]

\* get_flood_prediction builds its result; round() and int() raise on None
Respond ==
    /\ pc = "respond"
    /\ IF /\ IsNum(weather.wind_speed) /\ IsNum(weather.wind_direction)
          /\ IsNum(weather.temperature) /\ IsNum(weather.humidity)
       THEN /\ result' = Result
            /\ pc' = "done"
       ELSE /\ result' = result
            /\ pc' = "error"
    /\ UNCHANGED <<seed, rng, attempts, response, fetched, requests, weather, hi, args,
                   spread_probability, grid, minute, calls, zones>>
    /\ UNCHANGED <<flood_lat, flood_lng, boundaries, factors>>

\* a caller that calls run_simulation directly, MaxRuns times in a row with
\* the same arguments
DirectReturn ==
    /\ pc = "loop"
    /\ minute = args.duration_minutes
    /\ zones' = Append(zones, PredictedZones(grid))
    /\ IF Len(zones') < MaxRuns
       THEN /\ calls' = Append(calls, args)
            /\ pc' = "run_simulation"
       ELSE /\ calls' = calls
            /\ pc' = "done"
    /\ UNCHANGED <<seed, rng, attempts, response, fetched, requests, weather, hi, args,
                   spread_probability, grid, minute>>
    /\ boundaries' = Append(boundaries, GetPredictionBoundary(PredictedZones(grid)))
    /\ UNCHANGED <<flood_lat, flood_lng, result, factors>>

(***************************************************************************)
(* Spec: one request of get_flood_prediction.                              *)
(***************************************************************************)
Init ==
    /\ seed \in Seeds
    /\ rng = 0
    /\ pc = "get_weather"
    /\ attempts = 0
    /\ response = NoResponse
    /\ fetched = NoSample
    /\ requests = 0
    /\ weather = NoSample
    /\ hi = 0
    /\ args = NoArgs
    /\ spread_probability = 0
    /\ grid = [c \in Cells |-> 0]
    /\ minute = 0
    /\ calls = <<>>
    /\ zones = <<>>
    /\ flood_lat = flood_location[1]
    /\ flood_lng = flood_location[2]
    /\ boundaries = <<>>
    /\ result = NoResult
    /\ factors = NoFactors

Next ==
    \/ GetWeatherRequest
    \/ GetWeatherReturn
    \/ PredictSpread
    \/ RunSimulationStart
    \/ SimulationStep
    \/ PredictSpreadReturn
    \/ Respond

Spec == Init /\ [][Next]_vars

(***************************************************************************)
(* SimSpec: direct calls of run_simulation on drawn weather and duration.  *)
(***************************************************************************)
WindSpeeds == {3, 40}
WindDirections == {0, 200}
Temperatures == {-20, 35, 100, 120}
Humidities == {30, 100}

SimArgs ==
    {Args(Sample(Num(ws), Num(wd), Num(temp), Num(hum)), d) :
        <<ws, wd, temp, hum, d>> \in
            {x \in WindSpeeds \X WindDirections \X Temperatures \X Humidities
                      \X (0..MaxDuration) : Exact(x[1], x[3], x[4])}}

SimInit ==
    /\ seed \in Seeds
    /\ rng = 0
    /\ pc = "run_simulation"
    /\ attempts = 0
    /\ response = NoResponse
    /\ fetched = NoSample
    /\ requests = 0
    /\ weather = NoSample
    /\ hi = 0
    /\ args \in SimArgs
    /\ spread_probability = 0
    /\ grid = [c \in Cells |-> 0]
    /\ minute = 0
    /\ calls = <<args>>
    /\ zones = <<>>
    /\ flood_lat = flood_location[1]
    /\ flood_lng = flood_location[2]
    /\ boundaries = <<>>
    /\ result = NoResult
    /\ factors = NoFactors

SimNext ==
    \/ RunSimulationStart
    \/ SimulationStep
    \/ DirectReturn

SimSpec == SimInit /\ [][SimNext]_vars

(***************************************************************************)
(* GeoSpec: direct calls of the grid conversion and of                     *)
(* get_prediction_boundary, on a predictor at a drawn origin and on a      *)
(* drawn set of flooded cells (the empty one included).                    *)
(***************************************************************************)
Origins == {flood_location, <<0, 0>>, <<60 * Degree, -120 * Degree>>}

GeoCells ==
    {<<center, center>>, <<0, 0>>, <<0, grid_size - 1>>, <<center, grid_size - 1>>,
     <<grid_size - 1, 1>>}

GeoGrids == {[c \in Cells |-> IF c \in S THEN 1 ELSE 0] : S \in SUBSET GeoCells}

GeoInit ==
    /\ seed = [k \in 1..StreamPeriod |-> 0]
    /\ rng = 0
    /\ pc = "convert"
    /\ attempts = 0
    /\ response = NoResponse
    /\ fetched = NoSample
    /\ requests = 0
    /\ weather = NoSample
    /\ hi = 0
    /\ args = NoArgs
    /\ spread_probability = 0
    /\ grid \in GeoGrids
    /\ minute = 0
    /\ calls = <<>>
    /\ zones = <<>>
    /\ \E o \in Origins : flood_lat = o[1] /\ flood_lng = o[2]
    /\ boundaries = <<>>
    /\ result = NoResult
    /\ factors = NoFactors

\* the conversion loop of run_simulation on the drawn grid
ConvertGrid ==
    /\ pc = "convert"
    /\ zones' = <<PredictedZones(grid)>>
    /\ pc' = "get_prediction_boundary"
    /\ UNCHANGED <<seed, rng, attempts, response, fetched, requests, weather, hi, args,
                   spread_probability, grid, minute, calls>>
    /\ UNCHANGED <<flood_lat, flood_lng, boundaries, result, factors>>

BoundaryOfZones ==
    /\ pc = "get_prediction_boundary"
    /\ boundaries' = <<GetPredictionBoundary(zones[1])>>
    /\ pc' = "done"
    /\ UNCHANGED <<seed, rng, attempts, response, fetched, requests, weather, hi, args,
                   spread_probability, grid, minute, calls, zones>>
    /\ UNCHANGED <<flood_lat, flood_lng, result, factors>>

GeoNext ==
    \/ ConvertGrid
    \/ BoundaryOfZones

GeoSpec == GeoInit /\ [][GeoNext]_vars

(***************************************************************************)
(* BiasSpec: the direction factors of the 8 neighbours of a cell, for a    *)
(* drawn wind.                                                             *)
(***************************************************************************)
BiasWindDirections == 0..359

BiasInit ==
    /\ seed = [k \in 1..StreamPeriod |-> 0]
    /\ rng = 0
    /\ pc = "neighbours"
    /\ attempts = 0
    /\ response = NoResponse
    /\ fetched = NoSample
    /\ requests = 0
    /\ weather = NoSample
    /\ hi = 0
    /\ \E ws \in WindSpeeds, wd \in BiasWindDirections :
          args = Args(Sample(Num(ws), Num(wd), Num(35), Num(30)), 1)
    /\ spread_probability = 0
    /\ grid = InitialGrid
    /\ minute = 0
    /\ calls = <<>>
    /\ zones = <<>>
    /\ flood_lat = flood_location[1]
    /\ flood_lng = flood_location[2]
    /\ boundaries = <<>>
    /\ result = NoResult
    /\ factors = NoFactors

\* the offsets that pass `if di == 0 and dj == 0: continue`
NeighbourOffsets == {Offsets[o] : o \in 1..Len(Offsets)} \ {<<0, 0>>}

\* the direction part of the body of the neighbour loops, for each offset
NeighbourBias ==
    /\ pc = "neighbours"
    /\ factors' = [o \in NeighbourOffsets |-> NeighbourFactors(o[1], o[2], args.wind_direction.v)]
    /\ pc' = "done"
    /\ UNCHANGED <<seed, rng, attempts, response, fetched, requests, weather, hi, args,
                   spread_probability, grid, minute, calls, zones>>
    /\ UNCHANGED <<flood_lat, flood_lng, boundaries, result>>

BiasNext == NeighbourBias

BiasSpec == BiasInit /\ [][BiasNext]_vars

(***************************************************************************)
(* Properties.                                                             *)
(***************************************************************************)
Flooded(g) == {c \in Cells : g[c] = 1}

\* c is one of the 8 neighbours of s
Adjacent(s, c) ==
    /\ s # c
    /\ Abs(s[1] - c[1]) <= 1
    /\ Abs(s[2] - c[2]) <= 1

\* a step of the minute loop of one run
InLoop == pc = "loop"

\* C1: within a run no cell goes from flooded to unflooded: every iteration
\* of the minute loop commits a superset of the flooded cells, so the number
\* of flooded cells never decreases.
C1_Monotonic ==
    [][(InLoop /\ pc' = "loop") =>
          /\ Flooded(grid) \subseteq Flooded(grid')
          /\ Cardinality(Flooded(grid)) <= Cardinality(Flooded(grid'))]_vars

C1_Witness ==
    /\ InLoop
    /\ minute = 2
    /\ Cardinality(Flooded(grid)) >= 3

\* C2: the update is synchronous: every cell that becomes flooded in an
\* iteration is one of the 8 neighbours of a cell that was flooded when the
\* iteration started.
C2_Synchronous ==
    [][(InLoop /\ pc' = "loop") =>
          \A c \in Flooded(grid') \ Flooded(grid) :
              \E src \in Flooded(grid) : Adjacent(src, c)]_vars

\* a second iteration has flooded a cell that is not next to the origin
C2_Witness ==
    /\ InLoop
    /\ minute = 2
    /\ \E c \in Flooded(grid) : ~Adjacent(<<center, center>>, c) /\ c # <<center, center>>

\* C3: the center cell is flooded from time 0 on in every state of a run,
\* and is part of the list every run returns, whatever the duration and
\* the weather.
C3_CenterFlooded ==
    /\ InLoop => grid[<<center, center>>] = 1
    /\ \A k \in 1..Len(zones) : \E n \in 1..Len(zones[k]) : zones[k][n] = [lat |-> flood_lat, lng |-> flood_lng]

C3_Witness ==
    /\ pc = "done"
    /\ args.duration_minutes = 0
    /\ \E n \in 1..Len(zones[1]) : zones[1][n] = [lat |-> flood_lat, lng |-> flood_lng]

\* C4: the spread_probability the loop uses lies in [0.1, 0.9]: it is the
\* product base_rate * wind_factor * rainfall_factor * drainage_factor when
\* that lies in the range, 0.1 when it is below and 0.9 when it is above.
C4_Clamped ==
    InLoop =>
        LET raw == RawProbability(args.wind_speed.v, args.temperature.v, args.humidity.v)
        IN  /\ 1000 <= spread_probability
            /\ spread_probability <= 9000
            /\ (1000000 <= raw /\ raw <= 9000000) => spread_probability * 1000 = raw
            /\ raw < 1000000 => spread_probability = 1000
            /\ raw > 9000000 => spread_probability = 9000

\* a run whose drainage factor is zero or negative
C4_Witness ==
    /\ InLoop
    /\ args.temperature.v >= 100
    /\ spread_probability = 1000

\* C5: two runs of the simulator with the same weather and duration yield
\* the same flooded cells (run_simulation takes no seed, so the triple
\* (weather, duration, seed) is the pair of its arguments).
C5_Deterministic ==
    pc = "done" =>
        \A a, b \in 1..Len(zones) : calls[a] = calls[b] => zones[a] = zones[b]

\* C6: the flooded set of a horizon does not depend on the horizons run
\* before it: it is what run_simulation returns for that horizon's weather
\* and duration when no other simulation has drawn from the generator.
C6_HorizonIndependent ==
    \A k \in 1..Len(zones) : zones[k] = RunSimulation(calls[k], 0)

\* the response makes get_weather raise: the request failed, the status is
\* an error, the body is not JSON, or it is JSON of the wrong shape (not an
\* object, or with a "wind" / "main" entry that is not an object)
Failure(r) ==
    \/ r.status \in {"timeout", "http_error"}
    \/ /\ r.status = "ok"
       /\ \/ r.body.t # "obj"
          \/ \E key \in {"wind", "main"} : key \in DOMAIN r.body.v /\ r.body.v[key].t # "obj"

Present(r, outer, inner) ==
    /\ outer \in DOMAIN r.body.v
    /\ inner \in DOMAIN r.body.v[outer].v

WellShaped(r) == r.status = "ok" /\ ~Failure(r)

Incomplete(r) ==
    \E f \in {<<"wind", "speed">>, <<"wind", "deg">>, <<"main", "temp">>, <<"main", "humidity">>} :
        ~Present(r, f[1], f[2])

\* C8 as stated: a successful response that lacks one or more of the four
\* fields yields the default sample as a whole.
C8_WholeDefault ==
    (WellShaped(response) /\ Incomplete(response)) => fetched = DefaultSample

\* C8 amended: for a successful, well-shaped response each missing field
\* takes its own default (3.0, 0, 35.0, 30) and each present field is
\* returned as received.
C8_PerFieldDefault ==
    WellShaped(response) =>
        LET value(outer, inner, default) ==
                IF Present(response, outer, inner)
                THEN response.body.v[outer].v[inner] ELSE default
        IN  /\ fetched.wind_speed = value("wind", "speed", Num(3))
            /\ fetched.wind_direction = value("wind", "deg", Num(0))
            /\ fetched.temperature = value("main", "temp", Num(35))
            /\ fetched.humidity = value("main", "humidity", Num(30))

\* only the wind speed is missing: the result mixes the default 3.0 with
\* the three received values
C8_Witness ==
    /\ response = Ok(NoSpeedBody)
    /\ fetched = Sample(Num(3), Num(200), Num(20), Num(80))

\* C9: a call of get_weather sends at most one request; once that request
\* is answered (or has failed) the call has returned with a sample, without
\* a second attempt.
C9_SingleAttempt ==
    /\ attempts <= 1
    /\ response # NoResponse =>
          /\ attempts = 1
          /\ pc \notin {"get_weather", "waiting"}
          /\ fetched # NoSample

\* a failed single attempt has returned the fallback
C9_Witness ==
    /\ response = Timeout
    /\ attempts = 1
    /\ fetched = DefaultSample
    /\ pc = "predict_spread"

\* C10: every predict_spread call makes its own request to the weather
\* service (one by get_flood_prediction plus one per horizon so far) and
\* runs the simulation of its horizon with the four values it fetched.
C10_FreshWeather ==
    pc \in {"run_simulation", "loop"} =>
        /\ args = Args(fetched, Horizons[hi])
        /\ requests = hi + 1
        /\ Len(calls) = hi
        /\ calls[hi] = args

\* the second horizon runs with a sample that differs from the one
\* get_flood_prediction fetched
C10_Witness ==
    /\ pc = "loop"
    /\ hi = 2
    /\ args = Args(fetched, Horizons[2])
    /\ fetched # weather

\* the zone of the flood origin
OriginZone == [lat |-> flood_lat, lng |-> flood_lng]

\* C11: whatever the origin of the predictor, the conversion maps the center
\* cell (row = col = grid_size \div 2) to exactly (flood_lat, flood_lng), both
\* offsets being zero, and maps no other cell to it; a converted list holds
\* the origin when the center cell of its grid is flooded.
C11_CenterIsOrigin ==
    /\ Zone(center, center) = OriginZone
    /\ \A c \in Cells : Zone(c[1], c[2]) = OriginZone => c = <<center, center>>
    /\ \A k \in 1..Len(zones) :
          grid[<<center, center>>] = 1 <=> \E n \in 1..Len(zones[k]) : zones[k][n] = OriginZone

\* a list converted at an origin other than the handler's holds the origin
\* next to another zone
C11_Witness ==
    /\ pc = "done"
    /\ flood_lat = 60 * Degree
    /\ Len(zones[1]) >= 2
    /\ \E n \in 1..Len(zones[1]) : zones[1][n] = OriginZone

\* C12: get_prediction_boundary of the empty list is the fixed fallback
\* ellipse: centered on the flood origin, radius 0.3 km, major axis 0.4 km,
\* minor axis 0.2 km, rotation 200 degrees.
C12_EmptyFallback ==
    \A k \in 1..Len(boundaries) :
        zones[k] = <<>> =>
            /\ boundaries[k].center = <<flood_lat, flood_lng>>
            /\ boundaries[k].radius * 10 = 3 * AxisPerKm
            /\ boundaries[k].major_axis * 10 = 4 * AxisPerKm
            /\ boundaries[k].minor_axis * 10 = 2 * AxisPerKm
            /\ boundaries[k].rotation = 200
            /\ boundaries[k].type = "ellipse"

\* the boundary of the empty list has been computed at the origin (0, 0)
C12_Witness ==
    /\ pc = "done"
    /\ zones[1] = <<>>
    /\ Len(boundaries) = 1
    /\ flood_lat = 0
    /\ boundaries[1].center = <<0, 0>>

\* C13: for any weather, a run with duration_minutes = 0 leaves exactly one
\* cell flooded, the center, and returns the one-element list holding the
\* flood origin; the boundary of that list is computed by the non-empty
\* branch: centered on the origin, major axis = minor axis = radius = 0.
C13_ZeroDuration ==
    /\ (InLoop /\ args.duration_minutes = 0) => Flooded(grid) = {<<center, center>>}
    /\ \A k \in 1..Len(zones) :
          calls[k].duration_minutes = 0 => zones[k] = <<OriginZone>>
    /\ \A k \in 1..Len(boundaries) :
          calls[k].duration_minutes = 0 =>
              /\ boundaries[k].center = <<flood_lat, flood_lng>>
              /\ boundaries[k].major_axis = 0
              /\ boundaries[k].minor_axis = 0
              /\ boundaries[k].radius = 0
              /\ boundaries[k].rotation = 200
              /\ boundaries[k] # FallbackBoundary

\* runs of duration 0 in hot, humid weather have returned and their
\* boundaries have been computed
C13_Witness ==
    /\ pc = "done"
    /\ args.duration_minutes = 0
    /\ args.temperature = Num(120)
    /\ Len(zones) = MaxRuns
    /\ Len(boundaries) = MaxRuns
    /\ boundaries[1].radius = 0

\* axis units in one unit of spread: AxisPerKm * 111 / (Degree * CosScale)
AxisPerSpread == ((AxisPerKm \div CosScale) * 111) \div Degree

Lats(zs) == {zs[n].lat : n \in 1..Len(zs)}
Lngs(zs) == {zs[n].lng : n \in 1..Len(zs)}

\* x is a / 2 rounded to the unit
IsHalf(x, a) == 2 * x - a \in {0, 1}

\* C14: for every non-empty list the boundary is centered on the midpoint
\* of the bounding box, (max + min) / 2 per coordinate; with the latitude
\* spread (max - min of the latitudes, in km) and the longitude spread (max -
\* min of the longitudes, in km at the center latitude), the major axis is
\* 1.5 times the larger, the minor axis 0.7 times the smaller, the radius
\* their mean and the rotation 200; so major >= radius >= minor >= 0.
C14_Ellipse ==
    \A k \in 1..Len(boundaries) :
        zones[k] # <<>> =>
            LET b == boundaries[k]
                lats == Lats(zones[k])
                lngs == Lngs(zones[k])
                lat_spread == (SetMax(lats) - SetMin(lats)) * CosScale
                lng_spread == (SetMax(lngs) - SetMin(lngs)) * Cos(b.center[1])
            IN  /\ IsHalf(b.center[1], SetMax(lats) + SetMin(lats))
                /\ IsHalf(b.center[2], SetMax(lngs) + SetMin(lngs))
                /\ 2 * b.major_axis = 3 * AxisPerSpread * Max(lat_spread, lng_spread)
                /\ 10 * b.minor_axis = 7 * AxisPerSpread * Min(lat_spread, lng_spread)
                /\ 2 * b.radius = b.major_axis + b.minor_axis
                /\ b.rotation = 200
                /\ b.major_axis >= b.radius
                /\ b.radius >= b.minor_axis
                /\ b.minor_axis >= 0

\* the boundary of three or more zones spread in both directions, at 60
\* degrees north
C14_Witness ==
    /\ pc = "done"
    /\ flood_lat = 60 * Degree
    /\ Len(zones[1]) >= 3
    /\ boundaries[1].major_axis > boundaries[1].radius
    /\ boundaries[1].minor_axis > 0
    /\ boundaries[1].center # <<flood_lat, flood_lng>>

\* C15: each horizon's entry of the result packages that horizon's own
\* list of zones, the boundary computed from exactly that list, and
\* zone_count = the number of zones of that list; zones and boundaries of
\* different horizons are never mixed.  The list of a horizon is the
\* conversion of the grid its own simulation ended with.
C15_OwnPackage ==
    /\ Len(boundaries) <= Len(zones)
    /\ \A k \in 1..Len(boundaries) : boundaries[k] = GetPredictionBoundary(zones[k])
    /\ (pc # "loop" /\ Len(zones) >= 1) =>
          /\ zones[Len(zones)] = PredictedZones(grid)
          /\ calls[Len(zones)].duration_minutes = Horizons[Len(zones)]
    /\ pc = "done" =>
          /\ DOMAIN result.predictions = 1..Len(Horizons)
          /\ \A h \in 1..Len(Horizons) :
                /\ result.predictions[h].zones = zones[h]
                /\ result.predictions[h].boundary = GetPredictionBoundary(zones[h])
                /\ result.predictions[h].zone_count = Len(zones[h])

\* a result whose three horizons have different lists and boundaries
C15_Witness ==
    /\ pc = "done"
    /\ zones[1] # zones[2]
    /\ zones[2] # zones[3]
    /\ boundaries[1] # boundaries[2]
    /\ boundaries[2] # boundaries[3]
    /\ result.predictions[3].zone_count >= 3

\* c lies on the rim of the grid
OnEdge(c) == c[1] \in {0, grid_size - 1} \/ c[2] \in {0, grid_size - 1}

\* C16: a neighbour whose indices fall outside 0..grid_size-1 is skipped
\* silently: in an iteration every flooded cell tests exactly its in-grid
\* neighbours, two draws each, and addresses each by its own indices (no
\* negative index that would count from the opposite edge); every cell that
\* becomes flooded lies in the grid, next to a cell flooded before, and the
\* iteration ends without a fault.
C16_OutOfGridSkipped ==
    [][(InLoop /\ pc' = "loop") =>
          /\ \A src \in Flooded(grid) : \A o \in TestedOffsets(src[1], src[2]) :
                LET n == <<src[1] + Offsets[o][1], src[2] + Offsets[o][2]>>
                IN  n \in Cells /\ Indexed(n[1], n[2]) = n
          /\ rng' - rng =
                2 * Cardinality({x \in Flooded(grid) \X Cells : Adjacent(x[1], x[2])})
          /\ Flooded(grid') \subseteq Cells
          /\ \A c \in Flooded(grid') \ Flooded(grid) :
                \E src \in Flooded(grid) :
                    Abs(src[1] - c[1]) <= 1 /\ Abs(src[2] - c[2]) <= 1]_vars

\* the third iteration of the longest horizon has run on a grid that had a
\* flooded cell on its rim, which has tested its neighbours
C16_Witness ==
    /\ pc = "loop"
    /\ hi = 3
    /\ minute = 3
    /\ \E p0 \in 0..rng :
          LET wd == args.wind_direction.v
              r1 == Step(InitialGrid, p0, spread_probability, wd)
              r2 == Step(r1.grid, r1.rng, spread_probability, wd)
              r3 == Step(r2.grid, r2.rng, spread_probability, wd)
          IN  /\ r3.grid = grid
              /\ r3.rng = rng
              /\ \E c \in Flooded(r2.grid) : OnEdge(c)

\* C17: with the downhill bearing fixed at 200 degrees, the terrain factor
\* of a neighbour depends on its offset (d_row, d_col) alone: 3.0 for
\* exactly (-1, 0) and (-1, -1), whose bearing is less than 60 degrees from
\* 200; 0.3 for exactly (1, 0) and (1, 1), 120 degrees or more away; 1.0 for
\* the other four, (0, -1), (0, 1), (-1, 1) and (1, -1); the distance lies
\* in [0, 180]; the wind and its speed change none of it.
C17_TerrainBias ==
    pc = "done" =>
        /\ DOMAIN factors = NeighbourOffsets
        /\ Cardinality(NeighbourOffsets) = 8
        /\ \A o \in NeighbourOffsets :
              LET f == factors[o]
              IN  /\ 0 <= f.elevation_diff /\ f.elevation_diff <= 180
                  /\ f.terrain = 30 <=> f.elevation_diff < 60
                  /\ f.terrain = 3 <=> f.elevation_diff >= 120
                  /\ f.terrain = 10 <=> (60 <= f.elevation_diff /\ f.elevation_diff < 120)
                  /\ f.terrain = 30 <=> o \in {<<-1, 0>>, <<-1, -1>>}
                  /\ f.terrain = 3 <=> o \in {<<1, 0>>, <<1, 1>>}
                  /\ f.terrain = 10 <=> o \in {<<0, -1>>, <<0, 1>>, <<-1, 1>>, <<1, -1>>}

\* the factors under a strong wind blowing from the side: the downhill
\* neighbour keeps the terrain factor 3.0 although the wind does not favour it
C17_Witness ==
    /\ pc = "done"
    /\ args.wind_speed = Num(40)
    /\ args.wind_direction = Num(90)
    /\ factors[<<-1, 0>>].terrain = 30
    /\ factors[<<-1, 0>>].wind_bias = 9
    /\ factors[<<1, 1>>].terrain = 3

\* the neighbours whose factor the wind raises
Boosted == {o \in NeighbourOffsets : factors[o].wind_bias = 12}

\* C18: the direction factor of a neighbour is its terrain factor times 1.2
\* exactly when the wrapped distance between its bearing and the wind
\* direction is strictly below 45 degrees, and times 0.9 otherwise, a
\* distance of exactly 45 included; for every wind direction in [0, 360) one
\* or two of the 8 neighbours are boosted, and exactly one when the wind
\* direction is a multiple of 45.
C18_WindBias ==
    pc = "done" =>
        /\ \A o \in NeighbourOffsets :
              LET f == factors[o]
              IN  /\ 0 <= f.angle_diff /\ f.angle_diff <= 180
                  /\ f.wind_bias = 12 <=> f.angle_diff < 45
                  /\ f.wind_bias = 9 <=> f.angle_diff >= 45
                  /\ f.direction_factor = f.terrain * f.wind_bias
        /\ Cardinality(Boosted) \in {1, 2}
        /\ args.wind_direction.v % 45 = 0 => Cardinality(Boosted) = 1

\* a wind from 45 degrees: one neighbour is boosted and the two at exactly
\* 45 degrees from the wind are not
C18_Witness ==
    /\ pc = "done"
    /\ args.wind_direction = Num(45)
    /\ Cardinality(Boosted) = 1
    /\ Cardinality({o \in NeighbourOffsets :
                       factors[o].angle_diff = 45 /\ factors[o].wind_bias = 9}) = 2

\* Chebyshev distance of cell c from the center cell
FromCenter(c) == Max(Abs(c[1] - center), Abs(c[2] - center))

\* the cells of F that a chain of neighbouring cells of F links to a cell of S
RECURSIVE Linked(_, _)
Linked(S, F) ==
    LET more == {c \in F \ S : \E s \in S : Adjacent(s, c)}
    IN  IF more = {} THEN S ELSE Linked(S \cup more, F)

\* C19: after k iterations of a run every flooded cell lies within
\* Chebyshev distance k of the center cell, so at most (2k+1)^2 cells, and
\* never more than the grid has, are flooded; the flooded set contains the
\* center and is 8-connected.
C19_BoundedConnected ==
    InLoop =>
        /\ \A c \in Flooded(grid) : FromCenter(c) <= minute
        /\ Cardinality(Flooded(grid)) <= (2 * minute + 1) * (2 * minute + 1)
        /\ Cardinality(Flooded(grid)) <= grid_size * grid_size
        /\ <<center, center>> \in Flooded(grid)
        /\ Linked({<<center, center>>}, Flooded(grid)) = Flooded(grid)

\* three iterations have flooded a cell two steps from the center and more
\* cells in total than one iteration could
C19_Witness ==
    /\ InLoop
    /\ minute = 3
    /\ \E c \in Flooded(grid) : FromCenter(c) = 2
    /\ Cardinality(Flooded(grid)) >= 10

\* C20: a list returned by run_simulation, and so by predict_spread, is
\* never empty: it holds the flood origin, one entry per flooded cell of
\* the final grid and no entry twice; so every horizon has zone_count >= 1
\* and get_prediction_boundary never takes its empty-list branch on a list
\* the simulator produced.
C20_NeverEmpty ==
    /\ \A k \in 1..Len(zones) :
          /\ zones[k] # <<>>
          /\ \E n \in 1..Len(zones[k]) : zones[k][n] = OriginZone
          /\ \A m, n \in 1..Len(zones[k]) : zones[k][m] = zones[k][n] => m = n
    /\ (pc # "loop" /\ Len(zones) >= 1) =>
          Len(zones[Len(zones)]) = Cardinality(Flooded(grid))
    /\ \A k \in 1..Len(boundaries) :
          /\ zones[k] # <<>>
          /\ boundaries[k] = Ellipse(zones[k])
          /\ boundaries[k] # FallbackBoundary
    /\ pc = "done" =>
          \A h \in 1..Len(Horizons) : result.predictions[h].zone_count >= 1

\* a result whose first horizon has the origin alone and whose last horizon
\* has more zones
C20_Witness ==
    /\ pc = "done"
    /\ result.predictions[1].zone_count = 1
    /\ result.predictions[1].zones = <<OriginZone>>
    /\ result.predictions[3].zone_count >= 2

\* C21: the weather summary of the result is the weather the predictions
\* were computed with: at top level the result reports, field by field, the
\* sample that the simulation of every horizon has used, also when the
\* weather service answers some fetches of the request and fails on others.
C21_SummaryIsUsed ==
    pc = "done" =>
        \A h \in 1..Len(Horizons) :
            /\ calls[h].duration_minutes = Horizons[h]
            /\ result.weather.wind_speed = Round1(calls[h].wind_speed)
            /\ result.weather.wind_direction = ToInt(calls[h].wind_direction)
            /\ result.weather.temperature = Round1(calls[h].temperature)
            /\ result.weather.humidity = ToInt(calls[h].humidity)

====
